---- MODULE Spec2Model ----
(***************************************************************************)
(* A model of src/app.py: the HTML-to-docx translation of the Google Doc   *)
(* crawler (parse_style, hex_to_rgb, add_highlight, process_node,          *)
(* extract_title_from_doc, crawl_and_get_doc_object) and the               *)
(* "Convert & Download" loop that drives it.                               *)
(*                                                                         *)
(* Python strings are sequences of one-character strings. An optional      *)
(* value (None or x) is a sequence of length 0 or 1.                       *)
(***************************************************************************)
EXTENDS Integers, Sequences, FiniteSets, TLC

VARIABLES
    pc,          \* position of the running script / harness
    style_str,   \* parse_style: its argument
    style_map,   \* parse_style: the dict it returned
    element,     \* process_node: the node it is called on
    raised,      \* the exception that escaped ("" when none)
    warnings,    \* number of st.warning calls (failed image downloads)
    soup,        \* the parsed page
    title,       \* what extract_title_from_doc returned
    doc,         \* the docx Document: its paragraphs, in order
    p_index,     \* crawl loop: index of the <p> being handled (enumerate)
    c_index,     \* crawl loop: index of the child of p being handled
    origin,      \* for each paragraph of doc, the index of the <p> it came from
    urls_to_process, \* the batch: the URLs given
    u_index,     \* batch loop: index of the URL being handled
    results,     \* batch loop: the results list
    errors,      \* batch loop: the st.error reports (URL and message)
    fetched,     \* for each URL handled so far, the URL requested and whether
                 \* the page fetch succeeded
    response     \* the answer to the last requests.get for an image

vars == <<pc, style_str, style_map, element, raised, warnings, soup,
          title, doc, p_index, c_index, origin, urls_to_process, u_index,
          results, errors, fetched, response>>

(***************************************************************************)
(* Bounds of the model.                                                    *)
(***************************************************************************)
MaxStyleLen == 6
MaxTitleParts == 3
MaxParas == 2
MaxUrls == 2

(***************************************************************************)
(* Python str operations.                                                  *)
(***************************************************************************)
\* the whitespace characters str.strip() removes, among the modelled ones
Whitespace == {" ", "\t", "\n"}

UpperToLower ==
    [A |-> "a", B |-> "b", C |-> "c", D |-> "d", E |-> "e", F |-> "f",
     G |-> "g", H |-> "h", I |-> "i", J |-> "j", K |-> "k", L |-> "l",
     M |-> "m", N |-> "n", O |-> "o", P |-> "p", Q |-> "q", R |-> "r",
     S |-> "s", T |-> "t", U |-> "u", V |-> "v", W |-> "w", X |-> "x",
     Y |-> "y", Z |-> "z"]

\* str.lower()
lower(s) ==
    [i \in 1..Len(s) |->
        IF s[i] \in DOMAIN UpperToLower THEN UpperToLower[s[i]] ELSE s[i]]

RECURSIVE lstrip_ws(_)
lstrip_ws(s) ==
    IF s # <<>> /\ Head(s) \in Whitespace THEN lstrip_ws(Tail(s)) ELSE s

RECURSIVE rstrip_ws(_)
rstrip_ws(s) ==
    IF s # <<>> /\ s[Len(s)] \in Whitespace
    THEN rstrip_ws(SubSeq(s, 1, Len(s) - 1))
    ELSE s

\* str.strip()
strip(s) == rstrip_ws(lstrip_ws(s))

\* sub in s, for a one-character sub
has_char(s, c) == \E i \in 1..Len(s) : s[i] = c

\* the index of the first c in s (0 when there is none)
RECURSIVE find_char(_, _, _)
find_char(s, c, i) ==
    IF i > Len(s) THEN 0
    ELSE IF s[i] = c THEN i
    ELSE find_char(s, c, i + 1)

\* s.startswith(pre)
startswith(s, pre) == Len(s) >= Len(pre) /\ SubSeq(s, 1, Len(pre)) = pre

\* the index of the first occurrence of sub in s at or after i (0 when none)
RECURSIVE find_sub(_, _, _)
find_sub(s, sub, i) ==
    IF i + Len(sub) - 1 > Len(s) THEN 0
    ELSE IF SubSeq(s, i, i + Len(sub) - 1) = sub THEN i
    ELSE find_sub(s, sub, i + 1)

\* sub in s
contains(s, sub) == find_sub(s, sub, 1) # 0

\* s.replace(old, ""), for a non-empty old: every non-overlapping
\* occurrence, leftmost first, in one pass
RECURSIVE remove_all(_, _)
remove_all(s, old) ==
    LET at == find_sub(s, old, 1) IN
    IF at = 0 THEN s
    ELSE SubSeq(s, 1, at - 1)
         \o remove_all(SubSeq(s, at + Len(old), Len(s)), old)

\* s.split(sep) for a one-character sep: the list of segments
RECURSIVE split(_, _)
split(s, sep) ==
    LET at == find_char(s, sep, 1) IN
    IF at = 0 THEN <<s>>
    ELSE <<SubSeq(s, 1, at - 1)>> \o split(SubSeq(s, at + 1, Len(s)), sep)

(***************************************************************************)
(* parse_style (src/app.py 64-72). The dict is a function from keys to     *)
(* values; assigning to an existing key overwrites it.                     *)
(***************************************************************************)
EmptyDict == [k \in {} |-> <<>>]

\* styles[key] = val
dict_set(d, key, val) == (key :> val) @@ d

\* parse_style_item with a dict that keeps the first value of a key
parse_style_item_keep_first(d, item) ==
    IF has_char(item, ":")
    THEN LET at  == find_char(item, ":", 1)
             key == SubSeq(item, 1, at - 1)
             val == SubSeq(item, at + 1, Len(item))
         IN  d @@ (lower(strip(key)) :> strip(val))
    ELSE d

\* the body of the for loop, for one item
parse_style_item(d, item) ==
    IF has_char(item, ":")
    THEN LET at  == find_char(item, ":", 1)
             key == SubSeq(item, 1, at - 1)
             val == SubSeq(item, at + 1, Len(item))
         IN  dict_set(d, lower(strip(key)), strip(val))
    ELSE d

RECURSIVE parse_style_loop(_, _)
parse_style_loop(d, items) ==
    IF items = <<>> THEN d
    ELSE parse_style_loop(parse_style_item(d, Head(items)), Tail(items))

parse_style(s) ==
    IF s = <<>> THEN EmptyDict
    ELSE parse_style_loop(EmptyDict, split(s, ";"))

(***************************************************************************)
(* String literals of the source.                                          *)
(***************************************************************************)
FONT_WEIGHT == <<"f", "o", "n", "t", "-", "w", "e", "i", "g", "h", "t">>
FONT_STYLE == <<"f", "o", "n", "t", "-", "s", "t", "y", "l", "e">>
TEXT_DECORATION == <<"t", "e", "x", "t", "-", "d", "e", "c", "o", "r", "a", "t", "i", "o", "n">>
COLOR == <<"c", "o", "l", "o", "r">>
BACKGROUND_COLOR ==
    <<"b", "a", "c", "k", "g", "r", "o", "u", "n", "d", "-", "c", "o", "l", "o", "r">>
TEXT_ALIGN == <<"t", "e", "x", "t", "-", "a", "l", "i", "g", "n">>
S_700 == <<"7", "0", "0">>
S_BOLD == <<"b", "o", "l", "d">>
S_ITALIC == <<"i", "t", "a", "l", "i", "c">>
S_UNDERLINE == <<"u", "n", "d", "e", "r", "l", "i", "n", "e">>
S_TRANSPARENT == <<"t", "r", "a", "n", "s", "p", "a", "r", "e", "n", "t">>
S_CENTER == <<"c", "e", "n", "t", "e", "r">>
S_RIGHT == <<"r", "i", "g", "h", "t">>
S_JUSTIFY == <<"j", "u", "s", "t", "i", "f", "y">>
GOOGLE_DOCS_SUFFIX ==
    <<" ", "-", " ", "G", "o", "o", "g", "l", "e", " ", "D", "o", "c", "s">>
UNTITLED_DOC ==
    <<"u", "n", "t", "i", "t", "l", "e", "d", "_", "d", "o", "c">>

(***************************************************************************)
(* hex_to_rgb (src/app.py 45-47). A result that may raise is a record      *)
(* [ok, val]: ok = FALSE stands for the exception.                         *)
(***************************************************************************)
HexChars ==
    <<"0", "1", "2", "3", "4", "5", "6", "7", "8", "9",
      "a", "b", "c", "d", "e", "f">>

is_hex(c) == \E i \in 1..Len(HexChars) : HexChars[i] = lower(<<c>>)[1]

hex_val(c) == (CHOOSE i \in 1..Len(HexChars) : HexChars[i] = lower(<<c>>)[1]) - 1

RECURSIVE hex_digits_val(_, _)
hex_digits_val(ds, acc) ==
    IF ds = <<>> THEN acc
    ELSE hex_digits_val(Tail(ds), acc * Len(HexChars) + hex_val(Head(ds)))

\* int(s, 16) for a slice s of at most two characters: surrounding
\* whitespace and one sign are accepted, then at least one hex digit
all_hex(ds) == ds # <<>> /\ \A i \in 1..Len(ds) : is_hex(ds[i])

int16_digits(sign, ds) ==
    IF all_hex(ds)
    THEN [ok |-> TRUE, val |-> sign * hex_digits_val(ds, 0)]
    ELSE [ok |-> FALSE, val |-> 0]

int16_stripped(t) ==
    IF t # <<>> /\ Head(t) = "-" THEN int16_digits(0 - 1, Tail(t))
    ELSE IF t # <<>> /\ Head(t) = "+" THEN int16_digits(1, Tail(t))
    ELSE int16_digits(1, t)

int16(s) == int16_stripped(strip(s))

\* str.lstrip('#')
RECURSIVE lstrip_hash(_)
lstrip_hash(s) ==
    IF s # <<>> /\ Head(s) = "#" THEN lstrip_hash(Tail(s)) ELSE s

\* s[i:i+2] with i counted from 0, as Python slices (short at the end)
slice2(s, i) ==
    IF i + 1 > Len(s) THEN <<>>
    ELSE SubSeq(s, i + 1, IF i + 2 > Len(s) THEN Len(s) ELSE i + 2)

\* the tuple of the three int() results; one failure is the ValueError
rgb_tuple(r, g, b) ==
    [ok |-> r.ok /\ g.ok /\ b.ok, val |-> <<r.val, g.val, b.val>>]

hex_digits_to_rgb(h) ==
    rgb_tuple(int16(slice2(h, 0)), int16(slice2(h, 2)), int16(slice2(h, 4)))

hex_to_rgb(hex_color) == hex_digits_to_rgb(lstrip_hash(hex_color))

\* docx.shared.RGBColor(r, g, b): ValueError unless each is in 0..255
RGBColor(rgb) ==
    [ok |-> \A i \in 1..3 : rgb[i] >= 0 /\ rgb[i] <= 255, val |-> rgb]

(***************************************************************************)
(* The docx objects. A paragraph holds its runs in order. A run records    *)
(* whether its w:rPr child exists: python-docx creates it only when a      *)
(* character property is first set (get_or_add_rPr), and run._r.rPr is     *)
(* None until then.                                                        *)
(***************************************************************************)
NewRun(text) ==
    [text |-> text, bold |-> FALSE, italic |-> FALSE, underline |-> FALSE,
     color |-> <<>>, shd |-> <<>>, rPr |-> FALSE, picture |-> FALSE]

NewParagraph ==
    [alignment |-> "", space_after |-> "", line_spacing |-> "", runs |-> <<>>]

\* paragraph.add_run(text): the run is appended at once
add_run(para, text) == [para EXCEPT !.runs = Append(@, NewRun(text))]

last_run(para) == para.runs[Len(para.runs)]

\* add_highlight (src/app.py 50-62): tag.rPr.append(shd); with no rPr the
\* attribute access on None raises AttributeError
add_highlight(run, color_hex) ==
    IF run.rPr
    THEN [ok |-> TRUE, run |-> [run EXCEPT !.shd = <<remove_all(color_hex, <<"#">>)>>]]
    ELSE [ok |-> FALSE, run |-> run]

(***************************************************************************)
(* The parsed HTML tree (BeautifulSoup). A node is a record: name is ""    *)
(* for a NavigableString (element.name == None) and the tag name for a     *)
(* Tag; text is the string of a NavigableString; style and src are the     *)
(* attributes, absent (<<>>) or present (<<value>>).                       *)
(***************************************************************************)
Text(t) == [name |-> "", text |-> t, style |-> <<>>, src |-> <<>>, contents |-> <<>>]

Tag(name, style, src, contents) ==
    [name |-> name, text |-> <<>>, style |-> style, src |-> src, contents |-> contents]

\* element.get('style', '')
get_style(node) == IF node.style = <<>> THEN <<>> ELSE node.style[1]

\* element.find(name): the first descendant tag of that name, in document
\* order; <<>> when there is none
RECURSIVE find_in(_, _)
find_in(nodes, name) ==
    IF nodes = <<>> THEN <<>>
    ELSE IF Head(nodes).name = name THEN <<Head(nodes)>>
    ELSE LET below == find_in(Head(nodes).contents, name) IN
         IF below # <<>> THEN below ELSE find_in(Tail(nodes), name)

find(node, name) == find_in(node.contents, name)

\* element.get_text(): every descendant string, concatenated
RECURSIVE text_of(_)
text_of(nodes) ==
    IF nodes = <<>> THEN <<>>
    ELSE (IF Head(nodes).name = "" THEN Head(nodes).text
          ELSE text_of(Head(nodes).contents))
         \o text_of(Tail(nodes))

get_text(node) == text_of(<<node>>)

(***************************************************************************)
(* requests.get(src) for an image: it raises, or answers with a status     *)
(* code and a body that python-docx can or cannot read as an image.        *)
(***************************************************************************)
HTTP_OK == 200

Responses ==
    {[exc |-> TRUE,  status_code |-> 0,              image |-> FALSE],
     [exc |-> FALSE, status_code |-> 404,     image |-> FALSE],
     [exc |-> FALSE, status_code |-> HTTP_OK,        image |-> FALSE],
     [exc |-> FALSE, status_code |-> HTTP_OK,        image |-> TRUE]}

(***************************************************************************)
(* process_node (src/app.py 74-148). The result is the paragraph as the    *)
(* call left it, the exception that escaped it ("" when none) and whether  *)
(* st.warning was called.                                                  *)
(***************************************************************************)
Returned(para) == [paragraph |-> para, raised |-> "", warned |-> FALSE]

\* lines 90-92
set_bold(styles, run) ==
    IF FONT_WEIGHT \in DOMAIN styles
       /\ (contains(styles[FONT_WEIGHT], S_700)
           \/ contains(styles[FONT_WEIGHT], S_BOLD))
    THEN [run EXCEPT !.bold = TRUE, !.rPr = TRUE]
    ELSE run

\* lines 94-96
set_italic(styles, run) ==
    IF FONT_STYLE \in DOMAIN styles /\ contains(styles[FONT_STYLE], S_ITALIC)
    THEN [run EXCEPT !.italic = TRUE, !.rPr = TRUE]
    ELSE run

\* lines 98-100
set_underline(styles, run) ==
    IF TEXT_DECORATION \in DOMAIN styles
       /\ contains(styles[TEXT_DECORATION], S_UNDERLINE)
    THEN [run EXCEPT !.underline = TRUE, !.rPr = TRUE]
    ELSE run

\* lines 107-110: the try block; any exception leaves the run as it was
try_color(run, rgb) ==
    IF rgb.ok /\ RGBColor(rgb.val).ok
    THEN [run EXCEPT !.color = <<rgb.val>>, !.rPr = TRUE]
    ELSE run

\* lines 102-110
set_color(styles, run) ==
    IF COLOR \in DOMAIN styles /\ startswith(styles[COLOR], <<"#">>)
    THEN try_color(run, hex_to_rgb(styles[COLOR]))
    ELSE run

\* lines 112-116: the result of add_highlight, or the run untouched
set_highlight(styles, run) ==
    IF BACKGROUND_COLOR \in DOMAIN styles
       /\ styles[BACKGROUND_COLOR] # S_TRANSPARENT
       /\ startswith(styles[BACKGROUND_COLOR], <<"#">>)
    THEN add_highlight(run, styles[BACKGROUND_COLOR])
    ELSE [ok |-> TRUE, run |-> run]

\* the run is in the paragraph since add_run, whatever happens later
span_result(para, hl) ==
    [paragraph |-> [para EXCEPT !.runs = Append(@, hl.run)],
     raised |-> IF hl.ok THEN "" ELSE "AttributeError",
     warned |-> FALSE]

\* lines 88-116: the run of a span with text
span_run(para, styles, text) ==
    span_result(para,
        set_highlight(styles,
            set_color(styles,
                set_underline(styles,
                    set_italic(styles,
                        set_bold(styles, NewRun(text)))))))

\* process_img without the try/except around requests.get
process_img_no_try(para, node, resp) ==
    IF node.src = <<>> \/ node.src[1] = <<>> THEN Returned(para)
    ELSE IF resp.exc
    THEN [paragraph |-> para, raised |-> "ConnectionError", warned |-> FALSE]
    ELSE IF resp.status_code # HTTP_OK THEN Returned(para)
    ELSE IF resp.image
    THEN Returned([para EXCEPT !.runs =
                      Append(@, [NewRun(<<>>) EXCEPT !.picture = TRUE])])
    ELSE [paragraph |-> add_run(para, <<>>), raised |-> "", warned |-> TRUE]

\* lines 118-143: an img node (the width read from the style, lines 127-139,
\* is not used: add_picture is called with width=None)
process_img(para, node, resp) ==
    IF node.src = <<>> \/ node.src[1] = <<>> THEN Returned(para)
    ELSE IF resp.exc
    THEN [paragraph |-> para, raised |-> "", warned |-> TRUE]
    ELSE IF resp.status_code # HTTP_OK THEN Returned(para)
    ELSE IF resp.image
    THEN Returned([para EXCEPT !.runs =
                      Append(@, [NewRun(<<>>) EXCEPT !.picture = TRUE])])
    \* add_run() has appended the run when add_picture raises
    ELSE [paragraph |-> add_run(para, <<>>), raised |-> "", warned |-> TRUE]

\* process_node without the return after the nested image (line 82): the
\* span's text is emitted after its image
process_node_no_return(para, node, resp) ==
    IF node.name = "span"
    THEN LET styles == parse_style(get_style(node))
             img    == find(node, "img")
             text   == get_text(node)
         IN  IF text = <<>> /\ img = <<>> THEN Returned(para)
             ELSE IF img = <<>> THEN span_run(para, styles, text)
             ELSE IF text = <<>> THEN process_img(para, img[1], resp)
             ELSE span_run(process_img(para, img[1], resp).paragraph,
                           styles, text)
    ELSE IF node.name = "img" THEN process_img(para, node, resp)
    ELSE IF node.name = ""
    THEN IF strip(node.text) # <<>>
         THEN Returned(add_run(para, node.text))
         ELSE Returned(para)
    ELSE Returned(para)

RECURSIVE process_node(_, _, _)
process_node(para, node, resp) ==
    IF node.name = "span"
    THEN LET styles == parse_style(get_style(node))
             img    == find(node, "img")
             text   == get_text(node)
         IN  IF img # <<>> THEN process_node(para, img[1], resp)
             ELSE IF text = <<>> THEN Returned(para)
             ELSE span_run(para, styles, text)
    ELSE IF node.name = "img" THEN process_img(para, node, resp)
    ELSE IF node.name = ""
    THEN IF strip(node.text) # <<>>
         THEN Returned(add_run(para, node.text))
         ELSE Returned(para)
    ELSE Returned(para)

\* whether process_node calls requests.get for this node
fetches(node) ==
    LET img == IF node.name = "span" THEN find(node, "img")
               ELSE IF node.name = "img" THEN <<node>> ELSE <<>>
    IN  img # <<>> /\ img[1].src # <<>> /\ img[1].src[1] # <<>>

(***************************************************************************)
(* The parsed page. title is the text of the <title> element when there is *)
(* one; ps are the <p> elements of the page in document order; has_body    *)
(* tells whether they sit in a <body> element (html.parser adds none, and  *)
(* soup.body is None without one). The sample paragraphs hold no nested    *)
(* <p>.                                                                    *)
(***************************************************************************)
Soup(t, has_body, ps) == [title |-> t, has_body |-> has_body, ps |-> ps]

NoSoup == Soup(<<>>, FALSE, <<>>)

\* s[:n]
prefix(s, n) == SubSeq(s, 1, IF Len(s) < n THEN Len(s) ELSE n)

TITLE_LIMIT == 50

\* extract_title_from_doc (src/app.py 153-165)
extract_title_from_doc(page) ==
    IF page.title # <<>>
    THEN strip(remove_all(page.title[1], GOOGLE_DOCS_SUFFIX))
    ELSE IF page.ps # <<>>
    THEN prefix(strip(get_text(page.ps[1])), TITLE_LIMIT)
    ELSE UNTITLED_DOC

(***************************************************************************)
(* URLs are sequences of tokens; the tokens that hold a '/' after the      *)
(* host part are the ones the rewriting looks at.                          *)
(***************************************************************************)
HOST == "https://docs.google.com/document"

RECURSIVE find_token(_, _, _)
find_token(url, tok, i) ==
    IF i > Len(url) THEN 0
    ELSE IF url[i] = tok THEN i
    ELSE find_token(url, tok, i + 1)

\* the tokens before the first one that starts with '/'
RECURSIVE until_slash(_)
until_slash(toks) ==
    IF toks = <<>> \/ Head(toks) \in {"/", "/d/", "/edit", "/view", "/mobilebasic"}
    THEN <<>>
    ELSE <<Head(toks)>> \o until_slash(Tail(toks))

\* lines 169-174: the URL that is requested
mobilebasic_url(url) ==
    LET e == find_token(url, "/edit", 1)
        d == find_token(url, "/d/", 1)
        rest == SubSeq(url, d + 1, Len(url))
        nxt  == find_token(rest, "/d/", 1)
        seg  == IF nxt = 0 THEN rest ELSE SubSeq(rest, 1, nxt - 1)
    IN  IF e # 0 THEN SubSeq(url, 1, e - 1) \o <<"/mobilebasic">>
        ELSE IF find_token(url, "/mobilebasic", 1) = 0 /\ d # 0
        THEN <<HOST, "/d/">> \o until_slash(seg) \o <<"/mobilebasic">>
        ELSE url

(***************************************************************************)
(* Sample inputs.                                                          *)
(***************************************************************************)
HI == <<"H", "i">>
IMG_SRC == <<"u">>

decl(name, value) == name \o <<":">> \o value \o <<";">>

\* the declarations a sample span may carry, one choice per property
FontWeightChoices ==
    {<<>>, decl(FONT_WEIGHT, S_700), decl(FONT_WEIGHT, S_BOLD),
     decl(FONT_WEIGHT, <<"n", "o", "r", "m", "a", "l">>)}
FontStyleChoices == {<<>>, decl(FONT_STYLE, S_ITALIC)}
TextDecorationChoices == {<<>>, decl(TEXT_DECORATION, S_UNDERLINE)}
ColorChoices ==
    {<<>>, decl(COLOR, <<"#", "F", "F", "0", "0", "0", "0">>),
     decl(COLOR, <<"#", "z", "z", "0", "0", "0", "0">>), decl(COLOR, <<"#", "1", "2">>),
     decl(COLOR, <<"#", "1", "2", "3", "4", "5">>), decl(COLOR, <<"r", "e", "d">>)}
BackgroundChoices ==
    {<<>>, decl(BACKGROUND_COLOR, <<"#", "A", "A", "B", "B", "C", "C">>),
     decl(BACKGROUND_COLOR, S_TRANSPARENT)}

SpanStyles ==
    {w \o i \o u \o c \o b :
        w \in FontWeightChoices, i \in FontStyleChoices,
        u \in TextDecorationChoices, c \in ColorChoices,
        b \in BackgroundChoices}

Img == Tag("img", <<>>, <<IMG_SRC>>, <<>>)
ImgNoSrc == Tag("img", <<>>, <<>>, <<>>)
Span(style, contents) == Tag("span", <<style>>, <<>>, contents)
Wrapper(contents) == Tag("a", <<>>, <<>>, contents)

\* what a span or a wrapper may hold
SampleContents ==
    {<<>>, <<Text(HI)>>, <<Img>>, <<Text(HI), Img>>, <<Img, Text(HI)>>,
     <<ImgNoSrc, Text(HI)>>, <<Tag("b", <<>>, <<>>, <<Text(HI)>>)>>,
     <<Wrapper(<<Img>>), Text(HI)>>, <<Text(HI), Img, Img>>}

SampleNodes ==
    {Span(st, <<Text(HI)>>) : st \in SpanStyles}
    \cup {Span(st, c) : st \in {<<>>, decl(FONT_WEIGHT, S_700),
                                decl(BACKGROUND_COLOR, S_TRANSPARENT)},
                        c \in SampleContents}
    \cup {Tag("span", <<>>, <<>>, <<Text(HI)>>)}
    \cup {Wrapper(c) : c \in SampleContents}
    \cup {Wrapper(<<Span(<<>>, <<Text(HI)>>)>>)}
    \cup {Img, ImgNoSrc, Tag("img", <<>>, <<<<>>>>, <<>>),
          Text(HI), Text(<<" ">>), Text(<<>>), Text(<<" ", "H", "i", " ">>)}

P(style, contents) == Tag("p", style, <<>>, contents)

SampleParas ==
    {P(<<>>, <<>>),
     P(<<>>, <<Text(<<" ">>)>>),
     P(<<>>, <<Text(HI)>>),
     P(<<decl(TEXT_ALIGN, S_CENTER)>>,
       <<Span(decl(FONT_WEIGHT, S_700) \o decl(COLOR, <<"#", "F", "F", "0", "0", "0", "0">>),
              <<Text(HI)>>)>>),
     P(<<decl(TEXT_ALIGN, S_RIGHT)>>, <<Img>>),
     P(<<decl(TEXT_ALIGN, S_JUSTIFY)>>, <<Span(<<>>, <<Img>>)>>),
     P(<<>>, <<Text(HI), Img, Text(HI)>>),
     P(<<>>, <<Span(decl(BACKGROUND_COLOR, <<"#", "A", "A", "B", "B", "C", "C">>), <<Text(HI)>>)>>),
     P(<<>>, <<Wrapper(<<Text(HI)>>)>>),
     P(<<>>, <<Wrapper(<<Img>>)>>),
     P(<<>>, <<ImgNoSrc>>),
     P(<<>>, <<Span(<<>>, <<Text(HI), Img>>)>>)}

\* the sequences over S of length at most n
RECURSIVE SeqsUpTo(_, _)
SeqsUpTo(S, n) ==
    IF n = 0 THEN {<<>>}
    ELSE LET shorter == SeqsUpTo(S, n - 1) IN
         shorter \cup {Append(q, x) : q \in shorter, x \in S}

DOC_TITLE ==
    <<"D", "o", "c", " ", "-", " ", "G", "o", "o", "g", "l", "e", " ", "D", "o", "c", "s">>

Pages ==
    {Soup(t, b, ps) : t \in {<<>>, <<DOC_TITLE>>}, b \in BOOLEAN,
                      ps \in SeqsUpTo(SampleParas, MaxParas)}

SampleUrls ==
    {<<HOST, "/d/", "id1", "/edit", "?tab=t.0">>,
     <<HOST, "/d/", "id2", "/view">>,
     <<HOST, "/d/", "id3", "/mobilebasic">>}

(***************************************************************************)
(* crawl_and_get_doc_object (src/app.py 167-219) inside the Convert &      *)
(* Download loop (src/app.py 329-342).                                     *)
(***************************************************************************)
NoResponse == [exc |-> FALSE, status_code |-> 0, image |-> FALSE]

\* lines 331-333: the next URL of the batch, or the end of the loop
LoopNext ==
    /\ pc = "loop"
    /\ pc' = IF u_index <= Len(urls_to_process) THEN "fetch" ELSE "done"
    /\ UNCHANGED <<style_str, style_map, element, raised, warnings, soup,
                   title, doc, p_index, c_index, origin, urls_to_process,
                   u_index, results, errors, fetched, response>>

\* lines 176-181, 341-342: requests.get or raise_for_status raises; the
\* call returns (None, None, str(e)) and the loop reports it
FetchFail ==
    /\ pc = "fetch"
    /\ fetched' = Append(fetched,
                         [url |-> mobilebasic_url(urls_to_process[u_index]),
                          ok |-> FALSE])
    /\ errors' = Append(errors,
                        [index |-> u_index,
                         url |-> urls_to_process[u_index],
                         err |-> "str(e)"])
    /\ u_index' = u_index + 1
    /\ pc' = "loop"
    /\ UNCHANGED <<style_str, style_map, element, raised, warnings, soup,
                   title, doc, p_index, c_index, origin, urls_to_process,
                   results, response>>

\* lines 183-192: the page is parsed, the title extracted, the Document
\* created, and soup.body.find_all('p') evaluated
FetchOk(pages) ==
    /\ pc = "fetch"
    /\ \E page \in pages :
        /\ soup' = page
        /\ title' = extract_title_from_doc(page)
        /\ IF page.has_body
           THEN pc' = "paragraphs" /\ raised' = raised
           ELSE pc' = "crashed" /\ raised' = "AttributeError"
    /\ fetched' = Append(fetched,
                         [url |-> mobilebasic_url(urls_to_process[u_index]),
                          ok |-> TRUE])
    /\ doc' = <<>>
    /\ origin' = <<>>
    /\ p_index' = 1
    /\ c_index' = 1
    /\ UNCHANGED <<style_str, style_map, element, warnings, urls_to_process,
                   u_index, results, errors, response>>

\* lines 196-199
qualifies(p) == strip(get_text(p)) # <<>> \/ find(p, "img") # <<>>

\* lines 202-214
new_paragraph(p) ==
    LET p_styles == parse_style(get_style(p))
        align    == IF TEXT_ALIGN \in DOMAIN p_styles
                    THEN p_styles[TEXT_ALIGN] ELSE <<>>
    IN  [NewParagraph EXCEPT
            !.space_after = "Pt(0)",
            !.line_spacing = "1.0",
            !.alignment = IF align = S_CENTER THEN "CENTER"
                          ELSE IF align = S_RIGHT THEN "RIGHT"
                          ELSE IF align = S_JUSTIFY THEN "JUSTIFY"
                          ELSE @]

\* lines 195-214: the next <p>: skipped, or given a new paragraph
NextParagraph ==
    /\ pc = "paragraphs"
    /\ p_index <= Len(soup.ps)
    /\ IF qualifies(soup.ps[p_index])
       THEN /\ doc' = Append(doc, new_paragraph(soup.ps[p_index]))
            /\ origin' = Append(origin, p_index)
            /\ c_index' = 1
            /\ pc' = "children"
            /\ p_index' = p_index
       ELSE /\ p_index' = p_index + 1
            /\ UNCHANGED <<doc, origin, c_index, pc>>
    /\ UNCHANGED <<style_str, style_map, element, raised, warnings, soup,
                   title, urls_to_process, u_index, results, errors, fetched,
                   response>>

\* lines 216-217: process_node on the next child of the <p>
ProcessChild ==
    /\ pc = "children"
    /\ c_index <= Len(soup.ps[p_index].contents)
    /\ LET child == soup.ps[p_index].contents[c_index] IN
       \E resp \in (IF fetches(child) THEN Responses ELSE {response}) :
          LET r == process_node(doc[Len(doc)], child, resp) IN
          /\ doc' = [doc EXCEPT ![Len(doc)] = r.paragraph]
          /\ element' = child
          /\ response' = resp
          /\ warnings' = IF r.warned THEN warnings + 1 ELSE warnings
          /\ raised' = r.raised
          /\ IF r.raised = ""
             THEN c_index' = c_index + 1 /\ pc' = pc
             ELSE c_index' = c_index /\ pc' = "crashed"
    /\ UNCHANGED <<style_str, style_map, soup, title, p_index, origin,
                   urls_to_process, u_index, results, errors, fetched>>

\* the for loop over p.contents ends
EndChildren ==
    /\ pc = "children"
    /\ c_index > Len(soup.ps[p_index].contents)
    /\ p_index' = p_index + 1
    /\ pc' = "paragraphs"
    /\ UNCHANGED <<style_str, style_map, element, raised, warnings, soup,
                   title, doc, c_index, origin, urls_to_process, u_index,
                   results, errors, fetched, response>>

\* lines 219, 335-340: (doc, title, None) is returned and appended
Return ==
    /\ pc = "paragraphs"
    /\ p_index > Len(soup.ps)
    /\ results' = Append(results,
                         [doc |-> doc, title |-> title,
                          original_url |-> urls_to_process[u_index],
                          index |-> u_index])
    /\ u_index' = u_index + 1
    /\ pc' = "loop"
    /\ UNCHANGED <<style_str, style_map, element, raised, warnings, soup,
                   title, doc, p_index, c_index, origin, urls_to_process,
                   errors, fetched, response>>

\* what every run starts from
InitCommon ==
    /\ style_map = EmptyDict
    /\ raised = ""
    /\ warnings = 0
    /\ title = <<>>
    /\ p_index = 1
    /\ c_index = 1
    /\ origin = <<>>
    /\ u_index = 1
    /\ results = <<>>
    /\ errors = <<>>
    /\ fetched = <<>>
    /\ response = NoResponse

\* Single URL mode: one URL
Init ==
    /\ InitCommon
    /\ pc = "loop"
    /\ urls_to_process \in {<<u>> : u \in SampleUrls}
    /\ style_str = <<>>
    /\ element = Text(<<>>)
    /\ soup = NoSoup
    /\ doc = <<>>

Next ==
    \/ LoopNext
    \/ FetchFail
    \/ FetchOk(Pages)
    \/ NextParagraph
    \/ ProcessChild
    \/ EndChildren
    \/ Return

Spec == Init /\ [][Next]_vars

(***************************************************************************)
(* Multiple URLs (Batch) mode: the same loop over several URLs, the pages  *)
(* drawn from a smaller sample.                                            *)
(***************************************************************************)
BatchPages ==
    {Soup(<<DOC_TITLE>>, TRUE, <<P(<<>>, <<Text(HI)>>)>>),
     Soup(<<>>, TRUE, <<P(<<>>, <<Img>>), P(<<>>, <<>>)>>),
     Soup(<<>>, TRUE, <<>>),
     Soup(<<>>, FALSE, <<P(<<>>, <<Text(HI)>>)>>),
     Soup(<<DOC_TITLE>>, TRUE,
          <<P(<<>>, <<Span(decl(BACKGROUND_COLOR, <<"#", "f", "f", "0">>),
                           <<Text(HI)>>)>>)>>)}

BatchUrls ==
    {<<HOST, "/d/", "id1", "/edit">>, <<HOST, "/d/", "id2", "/view">>}

InitBatch ==
    /\ InitCommon
    /\ pc = "loop"
    /\ urls_to_process \in SeqsUpTo(BatchUrls, MaxUrls) \ {<<>>}
    /\ style_str = <<>>
    /\ element = Text(<<>>)
    /\ soup = NoSoup
    /\ doc = <<>>

NextBatch ==
    \/ LoopNext
    \/ FetchFail
    \/ FetchOk(BatchPages)
    \/ NextParagraph
    \/ ProcessChild
    \/ EndChildren
    \/ Return

SpecBatch == InitBatch /\ [][NextBatch]_vars

(***************************************************************************)
(* parse_style on its own, over every short string of an alphabet that     *)
(* holds the separators, a blank, and letters in both cases.               *)
(***************************************************************************)
StyleAlphabet == {"a", "A", " ", ":", ";"}

StyleStrings == SeqsUpTo(StyleAlphabet, MaxStyleLen)

InitStyle ==
    /\ InitCommon
    /\ pc = "parse_style"
    /\ style_str \in StyleStrings
    /\ urls_to_process = <<>>
    /\ element = Text(<<>>)
    /\ soup = NoSoup
    /\ doc = <<>>

ParseStyle ==
    /\ pc = "parse_style"
    /\ style_map' = parse_style(style_str)
    /\ pc' = "parsed"
    /\ UNCHANGED <<style_str, element, raised, warnings, soup, title, doc,
                   p_index, c_index, origin, urls_to_process, u_index,
                   results, errors, fetched, response>>

NextStyle == ParseStyle

SpecStyle == InitStyle /\ [][NextStyle]_vars

(***************************************************************************)
(* process_node on its own: one call on a sample node, with a paragraph    *)
(* that is empty or already holds a run.                                   *)
(***************************************************************************)
EARLIER == <<"x">>

InitNode ==
    /\ InitCommon
    /\ pc = "node"
    /\ element \in SampleNodes
    /\ doc \in {<<NewParagraph>>, <<add_run(NewParagraph, EARLIER)>>}
    /\ urls_to_process = <<>>
    /\ style_str = <<>>
    /\ soup = NoSoup

ProcessNode ==
    /\ pc = "node"
    /\ \E resp \in (IF fetches(element) THEN Responses ELSE {response}) :
          /\ doc' = <<process_node(doc[1], element, resp).paragraph>>
          /\ raised' = process_node(doc[1], element, resp).raised
          /\ warnings' = IF process_node(doc[1], element, resp).warned
                         THEN warnings + 1 ELSE warnings
          /\ response' = resp
    /\ pc' = "node_done"
    /\ UNCHANGED <<style_str, style_map, element, soup, title, p_index,
                   c_index, origin, urls_to_process, u_index, results,
                   errors, fetched>>

NextNode == ProcessNode

SpecNode == InitNode /\ [][NextNode]_vars

(***************************************************************************)
(* extract_title_from_doc on its own, over pages whose title or first      *)
(* paragraph is put together from a few pieces.                            *)
(***************************************************************************)
FILLER == [i \in 1..30 |-> "x"]

TitlePieces == {<<"M", "y">>, <<" ">>, GOOGLE_DOCS_SUFFIX, FILLER}

RECURSIVE concat(_)
concat(parts) == IF parts = <<>> THEN <<>> ELSE Head(parts) \o concat(Tail(parts))

TitleTexts == {concat(parts) : parts \in SeqsUpTo(TitlePieces, MaxTitleParts)}

TitleSoups ==
    {Soup(<<t>>, b, ps) : t \in TitleTexts, b \in BOOLEAN,
                          ps \in {<<>>, <<P(<<>>, <<Text(HI)>>)>>}}
    \cup {Soup(<<>>, b, <<P(<<>>, <<Span(<<>>, <<Text(t)>>)>>), P(<<>>, <<Text(HI)>>)>>) :
             t \in TitleTexts, b \in BOOLEAN}
    \cup {Soup(<<>>, b, <<>>) : b \in BOOLEAN}

InitTitle ==
    /\ InitCommon
    /\ pc = "title"
    /\ soup \in TitleSoups
    /\ urls_to_process = <<>>
    /\ style_str = <<>>
    /\ element = Text(<<>>)
    /\ doc = <<>>

ExtractTitle ==
    /\ pc = "title"
    /\ title' = extract_title_from_doc(soup)
    /\ pc' = "title_done"
    /\ UNCHANGED <<style_str, style_map, element, raised, warnings, soup,
                   doc, p_index, c_index, origin, urls_to_process, u_index,
                   results, errors, fetched, response>>

NextTitle == ExtractTitle

SpecTitle == InitTitle /\ [][NextTitle]_vars

(***************************************************************************)
(* Properties of parse_style (SpecStyle).                                  *)
(***************************************************************************)
\* the ';'-separated segments of a declaration string that hold a ':'
valid_items(s) ==
    IF s = <<>> THEN <<>>
    ELSE SelectSeq(split(s, ";"), LAMBDA it : has_char(it, ":"))

\* the lower-cased, trimmed text before the first ':' of a segment
item_key(it) == lower(strip(SubSeq(it, 1, find_char(it, ":", 1) - 1)))

\* the trimmed text after the first ':' of a segment
item_val(it) == strip(SubSeq(it, find_char(it, ":", 1) + 1, Len(it)))

\* the last segment with key k
last_item(items, k) ==
    items[CHOOSE i \in 1..Len(items) :
             /\ item_key(items[i]) = k
             /\ \A j \in (i + 1)..Len(items) : item_key(items[j]) # k]

\* C6 as stated: parse_style returns exactly as many entries as the string
\* has ';'-separated segments containing ':', each key the lower-cased
\* trimmed text before the first ':' and each value the trimmed text after
\* (stated here for strings in which no segment has an empty key).
C6_OneEntryPerSegment ==
    (pc = "parsed"
     /\ \A i \in 1..Len(valid_items(style_str)) :
           item_key(valid_items(style_str)[i]) # <<>>) =>
        /\ Cardinality(DOMAIN style_map) = Len(valid_items(style_str))
        /\ \A i \in 1..Len(valid_items(style_str)) :
              /\ item_key(valid_items(style_str)[i]) \in DOMAIN style_map
              /\ style_map[item_key(valid_items(style_str)[i])]
                    = item_val(valid_items(style_str)[i])

\* C6 amended: parse_style returns one entry per distinct key among the
\* ';'-separated segments containing ':' (the lower-cased trimmed text before
\* the first ':'), its value the trimmed text after the first ':' of the last
\* segment with that key; segments without ':' add no entry and an empty
\* string gives an empty map.
C6_OneEntryPerDistinctKey ==
    pc = "parsed" =>
        /\ DOMAIN style_map
              = {item_key(valid_items(style_str)[i]) :
                    i \in 1..Len(valid_items(style_str))}
        /\ \A k \in DOMAIN style_map :
              style_map[k] = item_val(last_item(valid_items(style_str), k))
        /\ Cardinality(DOMAIN style_map) <= Len(valid_items(style_str))
        /\ (valid_items(style_str) = <<>> => style_map = EmptyDict)

\* two segments with the same key and different values were parsed
C6_Witness ==
    /\ pc = "parsed"
    /\ Len(valid_items(style_str)) = 2
    /\ Cardinality(DOMAIN style_map) = 1
    /\ item_val(valid_items(style_str)[1]) # item_val(valid_items(style_str)[2])
    /\ \E k \in DOMAIN style_map : style_map[k] # <<>> /\ k # <<>>

(***************************************************************************)
(* Properties of process_node (SpecNode).                                  *)
(***************************************************************************)
\* a step of SpecNode: the call of process_node on element
NodeCall == pc = "node" /\ pc' = "node_done"

\* the runs the paragraph held before the call are still there, in place
Kept ==
    /\ Len(doc'[1].runs) >= Len(doc[1].runs)
    /\ SubSeq(doc'[1].runs, 1, Len(doc[1].runs)) = doc[1].runs

\* the runs the call appended
Appended == SubSeq(doc'[1].runs, Len(doc[1].runs) + 1, Len(doc'[1].runs))

\* a run that holds a picture and nothing else
PictureRun == [NewRun(<<>>) EXCEPT !.picture = TRUE]

\* a span with descendant text and a nested image
span_with_text_and_image(n) ==
    n.name = "span" /\ get_text(n) # <<>> /\ find(n, "img") # <<>>

\* a span with non-empty text and no nested image
span_with_text_only(n) ==
    n.name = "span" /\ get_text(n) # <<>> /\ find(n, "img") = <<>>

\* C2 as stated: for a span that contains both descendant text and a nested
\* image, process_node appends exactly one output to the current paragraph,
\* the image, and no text Run (stated here for images that have a src).
C2_ExactlyTheImage ==
    [][NodeCall /\ span_with_text_and_image(element) /\ fetches(element)
          => raised' = "" /\ Kept /\ Appended = <<PictureRun>>]_vars

\* C2 amended: for a span that contains both descendant text and a nested
\* image, process_node raises nothing, appends no Run carrying text and at
\* most one output: the first nested image when it has a src, its fetch
\* answers 200 and the bytes are an image; an empty run when the fetch
\* answers 200 with bytes that are no image; nothing in every other case.
C2_AtMostTheImage ==
    [][NodeCall /\ span_with_text_and_image(element)
          => /\ raised' = ""
             /\ Kept
             /\ Appended =
                  IF fetches(element) /\ ~response'.exc
                     /\ response'.status_code = HTTP_OK
                  THEN IF response'.image THEN <<PictureRun>>
                       ELSE <<NewRun(<<>>)>>
                  ELSE <<>>]_vars

\* a span holding a caption and then an image was translated into the image
\* alone, after the run the paragraph already held
C2_Witness ==
    /\ pc = "node_done"
    /\ element = Span(<<>>, <<Text(HI), Img>>)
    /\ doc[1].runs = <<NewRun(EARLIER), PictureRun>>

\* C3 as stated: for a span with non-empty text and no nested image, a
\* '#'-prefixed background-color gives a Run whose shading fill is that value
\* without the '#', whatever the other properties; a 'transparent' or absent
\* background-color gives a Run with no highlight; no exception is raised.
C3_HighlightFill ==
    (pc = "node_done" /\ span_with_text_only(element)) =>
        /\ raised = ""
        /\ doc[1].runs # <<>>
        /\ last_run(doc[1]).text = get_text(element)
        /\ LET sm == parse_style(get_style(element)) IN
           IF BACKGROUND_COLOR \in DOMAIN sm
           THEN /\ startswith(sm[BACKGROUND_COLOR], <<"#">>)
                     => last_run(doc[1]).shd = <<Tail(sm[BACKGROUND_COLOR])>>
                /\ sm[BACKGROUND_COLOR] = S_TRANSPARENT
                     => last_run(doc[1]).shd = <<>>
           ELSE last_run(doc[1]).shd = <<>>

\* a tag that is neither a span nor an img
is_wrapper(n) == n.name \notin {"", "span", "img"}

\* the text a walk over nodes emits: each non-blank string, each image-free
\* span's text, and what the children of any other tag emit
RECURSIVE emitted_text(_)
emitted_text(nodes) ==
    IF nodes = <<>> THEN <<>>
    ELSE LET n == Head(nodes) IN
         (IF n.name = ""
          THEN (IF strip(n.text) # <<>> THEN n.text ELSE <<>>)
          ELSE IF n.name = "span"
          THEN (IF find(n, "img") = <<>> THEN get_text(n) ELSE <<>>)
          ELSE IF n.name = "img" THEN <<>>
          ELSE emitted_text(n.contents))
         \o emitted_text(Tail(nodes))

RECURSIVE run_texts(_)
run_texts(runs) ==
    IF runs = <<>> THEN <<>> ELSE Head(runs).text \o run_texts(Tail(runs))

\* C5 as stated: for a node that is neither a text node, a span nor an img,
\* process_node recurses into the children, so the text nested inside the
\* wrapper is emitted into the current paragraph, in order.
C5_WrapperChildrenEmitted ==
    [][NodeCall /\ is_wrapper(element)
          => /\ raised' = ""
             /\ Kept
             /\ run_texts(Appended) = emitted_text(element.contents)]_vars

\* the color value begins with '#' and the parse of it fails
color_unparsable(sm) ==
    /\ COLOR \in DOMAIN sm
    /\ startswith(sm[COLOR], <<"#">>)
    /\ ~(hex_to_rgb(sm[COLOR]).ok /\ RGBColor(hex_to_rgb(sm[COLOR]).val).ok)

\* C10 as stated: for a span with non-empty text and no nested image whose
\* color begins with '#' and cannot be parsed, process_node raises nothing and
\* appends exactly one Run with that text, its text color unset and bold,
\* italic, underline and highlight as their own rules dictate.
C10_MalformedColorSkipped ==
    [][(NodeCall /\ span_with_text_only(element)
        /\ color_unparsable(parse_style(get_style(element))))
          => LET sm == parse_style(get_style(element)) IN
             /\ raised' = ""
             /\ Kept
             /\ Len(Appended) = 1
             /\ Appended[1].text = get_text(element)
             /\ Appended[1].color = <<>>
             /\ Appended[1].bold
                  = (FONT_WEIGHT \in DOMAIN sm
                     /\ (contains(sm[FONT_WEIGHT], S_700)
                         \/ contains(sm[FONT_WEIGHT], S_BOLD)))
             /\ Appended[1].italic
                  = (FONT_STYLE \in DOMAIN sm
                     /\ contains(sm[FONT_STYLE], S_ITALIC))
             /\ Appended[1].underline
                  = (TEXT_DECORATION \in DOMAIN sm
                     /\ contains(sm[TEXT_DECORATION], S_UNDERLINE))
             /\ Appended[1].shd
                  = IF BACKGROUND_COLOR \in DOMAIN sm
                       /\ sm[BACKGROUND_COLOR] # S_TRANSPARENT
                       /\ startswith(sm[BACKGROUND_COLOR], <<"#">>)
                    THEN <<Tail(sm[BACKGROUND_COLOR])>>
                    ELSE <<>>]_vars

(***************************************************************************)
(* Properties of crawl_and_get_doc_object (Spec).                          *)
(***************************************************************************)
\* the indexes of the <p> nodes that have text or an image, in order
RECURSIVE with_text_or_image(_, _)
with_text_or_image(ps, i) ==
    IF i > Len(ps) THEN <<>>
    ELSE (IF strip(get_text(ps[i])) # <<>> \/ find(ps[i], "img") # <<>>
          THEN <<i>> ELSE <<>>)
         \o with_text_or_image(ps, i + 1)

\* process_node is about to be called on a child of the current <p>
AtChild == pc = "children" /\ c_index <= Len(soup.ps[p_index].contents)

\* the answer to an image fetch is a failure: an exception or a status
\* other than 200
fetch_failed(resp) == resp.exc \/ resp.status_code # HTTP_OK

\* the answer that carries an image python-docx can embed
ImageResponse == [exc |-> FALSE, status_code |-> HTTP_OK, image |-> TRUE]

\* the call of crawl_and_get_doc_object has returned its document
Returned1 == results # <<>>

\* C1: when the fetch of an image reached by process_node raises or answers
\* with a status other than 200, the conversion is not aborted: the image is
\* skipped, the paragraphs and runs made so far stay, the walk goes on to the
\* next node; no abort is ever due to an image node; and every document that
\* is returned holds one Paragraph per <p> with text or an image, in order,
\* with no error.
C1_ImageFailureNeverAborts ==
    /\ [][(AtChild /\ fetches(soup.ps[p_index].contents[c_index])
           /\ fetch_failed(response'))
             => /\ raised' = ""
                /\ pc' = "children"
                /\ c_index' = c_index + 1
                /\ doc' = doc
                /\ origin' = origin]_vars
    /\ [](pc = "crashed" => (~soup.has_body \/ ~fetches(element)))
    /\ [](Returned1 =>
            /\ raised = ""
            /\ errors = <<>>
            /\ origin = with_text_or_image(soup.ps, 1)
            /\ Len(results[1].doc) = Len(origin)
            /\ results[1].doc = doc)

\* a page of two paragraphs was returned whole: the image between two texts
\* of the first answered 404 and only the two texts are in its Paragraph
C1_Witness ==
    /\ pc = "done"
    /\ Returned1
    /\ soup.ps = <<P(<<>>, <<Text(HI), Img, Text(HI)>>), P(<<>>, <<Text(HI)>>)>>
    /\ response.status_code = 404
    /\ Len(results[1].doc) = 2
    /\ results[1].doc[1].runs = <<NewRun(HI), NewRun(HI)>>

\* the page was fetched and parsed
PageParsed == fetched # <<>> /\ fetched[Len(fetched)].ok

\* C4 as stated: a page with no body element, or with a body and no <p>,
\* does not make crawl_and_get_doc_object raise: it returns a document with
\* zero Paragraphs and no error.
C4_AnomalyGivesEmptyDocument ==
    (PageParsed /\ (~soup.has_body \/ soup.ps = <<>>)) =>
        /\ raised = ""
        /\ pc # "crashed"
        /\ doc = <<>>
        /\ (pc = "done" => Returned1 /\ results[1].doc = <<>> /\ errors = <<>>)

\* the number of img tags among the descendants
RECURSIVE count_img(_)
count_img(nodes) ==
    IF nodes = <<>> THEN 0
    ELSE (IF Head(nodes).name = "img" THEN 1 ELSE 0)
         + count_img(Head(nodes).contents) + count_img(Tail(nodes))

\* a <p> whose only content is one image, which has a src
only_an_image(p) ==
    /\ strip(get_text(p)) = <<>>
    /\ count_img(p.contents) = 1
    /\ find(p, "img")[1].src \notin {<<>>, <<<<>>>>}

\* the <p> nodes the loop is done with or is working on
Handled ==
    SubSeq(soup.ps, 1, IF pc = "children" THEN p_index ELSE p_index - 1)

\* C7 as stated: a <p> with empty stripped text and no img gives no
\* Paragraph, so the Paragraphs correspond one to one, in order, to the <p>
\* nodes with text or an image; and a <p> whose only content is an image
\* gives one Paragraph that holds exactly one image output (stated here for
\* an image with a src, when no image fetch was made or the last one gave an
\* image).
C7_ImageOnlyParagraph ==
    (pc \in {"paragraphs", "children"}) =>
        /\ origin = with_text_or_image(Handled, 1)
        /\ Len(doc) = Len(origin)
        /\ (pc = "children" /\ ~AtChild /\ only_an_image(soup.ps[p_index])
            /\ response \in {NoResponse, ImageResponse})
              => doc[Len(doc)].runs = <<PictureRun>>

(***************************************************************************)
(* Properties of extract_title_from_doc (SpecTitle).                       *)
(***************************************************************************)
endswith(s, suf) ==
    Len(s) >= Len(suf) /\ SubSeq(s, Len(s) - Len(suf) + 1, Len(s)) = suf

\* s without its suffix suf, when it ends with it
without_suffix(s, suf) ==
    IF endswith(s, suf) THEN SubSeq(s, 1, Len(s) - Len(suf)) ELSE s

\* C8 as stated: with a title element the result is its text with the
\* ' - Google Docs' suffix removed and whitespace trimmed; otherwise, with a
\* paragraph, the first paragraph's trimmed text cut to 50 characters;
\* otherwise the fallback literal (the suffix taken off before or after the
\* trimming).
C8_TitlePrecedence ==
    pc = "title_done" =>
        IF soup.title # <<>>
        THEN title \in {strip(without_suffix(soup.title[1], GOOGLE_DOCS_SUFFIX)),
                        strip(without_suffix(rstrip_ws(soup.title[1]),
                                             GOOGLE_DOCS_SUFFIX))}
        ELSE IF soup.ps # <<>>
        THEN title = prefix(strip(get_text(soup.ps[1])), TITLE_LIMIT)
        ELSE title = UNTITLED_DOC

(***************************************************************************)
(* Properties of the Convert & Download loop (SpecBatch).                  *)
(***************************************************************************)
\* the indexes of the URLs whose page fetch had the outcome ok, in order
RECURSIVE fetch_indexes(_, _, _)
fetch_indexes(f, ok, i) ==
    IF i > Len(f) THEN <<>>
    ELSE (IF f[i].ok = ok THEN <<i>> ELSE <<>>) \o fetch_indexes(f, ok, i + 1)

\* C9 as stated: the URLs are handled one after the other in input order; a
\* page-fetch failure is reported for its URL and leaves the other URLs
\* alone; so when the run is over, every URL has been handled and the results
\* list holds exactly the documents whose page fetch succeeded, in input
\* order.
C9_ResultsAreTheFetchedPages ==
    /\ Len(fetched) \in {u_index - 1, u_index}
    /\ [k \in 1..Len(errors) |-> errors[k].index]
          = fetch_indexes(fetched, FALSE, 1)
    /\ \A k \in 1..Len(errors) :
          errors[k].url = urls_to_process[errors[k].index]
    /\ (pc \in {"done", "crashed"}) =>
          /\ Len(fetched) = Len(urls_to_process)
          /\ [k \in 1..Len(results) |-> results[k].index]
                = fetch_indexes(fetched, TRUE, 1)
          /\ \A k \in 1..Len(results) :
                results[k].original_url = urls_to_process[results[k].index]

====
